---- MODULE Spec2Model ----
(***************************************************************************)
(* Model of write_packet (src/bioloid/rp2.c): the half-duplex direction    *)
(* switch of a PL011-style UART.  The routine does two read-modify-writes  *)
(* of the control register around a poll of the flag register.             *)
(*                                                                         *)
(* A 32-bit register value is represented by the set of its set bit        *)
(* positions (a subset of 0..31): | is union, & is intersection and ~ is   *)
(* the complement within 0..31.  Every volatile access of the routine is   *)
(* one atomic step, and is appended to the access log.                     *)
(***************************************************************************)
EXTENDS Integers, Sequences, FiniteSets

(* ---------------------------------------------------------------------- *)
(* Bounds of the model                                                     *)
(* ---------------------------------------------------------------------- *)

\* Largest number of flag-register reads a behaviour may contain.
MaxReads == 3

(* ---------------------------------------------------------------------- *)
(* 32-bit words                                                            *)
(* ---------------------------------------------------------------------- *)

\* Width of uint32_t.
WordBits == 32

BitPos == 0 .. (WordBits - 1)

\* The bits of a non-negative int literal (below 2^31).
RECURSIVE Pow2(_)
Pow2(n) == IF n = 0 THEN 1 ELSE 2 * Pow2(n - 1)

Bits(n) == { i \in 0 .. (WordBits - 2) : (n \div Pow2(i)) % 2 = 1 }

\* n << k, truncated to 32 bits.
Shl(n, k) == { b + k : b \in Bits(n) } \cap BitPos

BitOr(a, b) == a \cup b

BitAnd(a, b) == a \cap b

BitNot(a) == BitPos \ a

(* ---------------------------------------------------------------------- *)
(* Register map (rp2.c, lines 4-13)                                        *)
(* ---------------------------------------------------------------------- *)

UART0_BASE == 1073954816

UARTCR == 48

UARTCR_RXE == Shl(1, 9)

UARTCR_TXE == Shl(1, 8)

UARTFR == 24

UARTFR_TXFE == Shl(1, 7)

UARTFR_TXFF == Shl(1, 5)

UARTFR_BUSY == Shl(1, 3)

\* base[UARTCR / 4] and base[UARTFR / 4]: word indexes into the block.
CRIdx == UARTCR \div 4

FRIdx == UARTFR \div 4

\* The words of the register block from the base up to the control register.
RegIdx == 0 .. CRIdx

(* ---------------------------------------------------------------------- *)
(* Inputs                                                                  *)
(* ---------------------------------------------------------------------- *)

\* Bits the control register may hold on entry: both enables, and bits the
\* routine must preserve (UARTEN, the bit next to RXE, the top bit).
CREntryBits == {0, 8, 9, 10, 31}

CRValues == SUBSET CREntryBits

\* Entry values of the control register for the concurrent calls: the
\* peripheral enabled and in transmit mode, or in receive mode.
CRValuesConc == { {0, 8, 31}, {0, 9, 31} }

\* Values the hardware may present in the flag register.
FlagValues ==
    { UARTFR_TXFE,
      UARTFR_BUSY,
      BitOr(UARTFR_BUSY, UARTFR_TXFF),
      BitOr(UARTFR_TXFE, UARTFR_TXFF) }

\* Values the other registers of the block hold on entry.
FillValues == { {}, BitPos }

\* Payloads handed to write_packet (buf, len).
Payloads == { <<>>, <<255, 255, 1>> }

\* The threads or cores that may call write_packet.
Callers == {1, 2}

VARIABLES
    regs,   \* the register block: word index -> 32-bit value
    regs0,  \* the register block as it was on entry (never changed)
    args,   \* per caller: the buf and len arguments
    pc,     \* per caller: the source line it is about to execute
    cr,     \* per caller: the local cr
    fr,     \* per caller: the local fr
    log     \* every volatile access so far, in order

vars == <<regs, regs0, args, pc, cr, fr, log>>

(* ---------------------------------------------------------------------- *)
(* The routine's computations                                              *)
(* ---------------------------------------------------------------------- *)

\* Mutants of RxMode.
RxMode_KeepTx(c) == BitOr(c, UARTCR_RXE)

RxMode_Overwrite(c) == UARTCR_RXE

\* Lines 17-18: cr |= UARTCR_RXE; cr &= ~UARTCR_TXE;
RxMode(c) == BitAnd(BitOr(c, UARTCR_RXE), BitNot(UARTCR_TXE))

\* Mutants of TxMode.
TxMode_KeepRx(c) == BitOr(c, UARTCR_TXE)

TxMode_Swapped(c) == BitAnd(BitOr(c, UARTCR_RXE), BitNot(UARTCR_TXE))

TxMode_NoTx(c) == BitAnd(c, BitNot(UARTCR_RXE))

\* Lines 33-34: cr |= UARTCR_TXE; cr &= ~UARTCR_RXE;
TxMode(c) == BitAnd(BitOr(c, UARTCR_TXE), BitNot(UARTCR_RXE))

\* Mutants of TxNotFull.
TxNotFull_Busy(f) == BitAnd(f, UARTFR_BUSY) = {}

TxNotFull_Empty(f) == BitAnd(f, UARTFR_TXFE) # {}

TxNotFull_Inverted(f) == BitAnd(f, UARTFR_TXFF) # {}

\* Line 25: (fr & UARTFR_TXFF) == 0
TxNotFull(f) == BitAnd(f, UARTFR_TXFF) = {}

(* ---------------------------------------------------------------------- *)
(* The access log                                                          *)
(* ---------------------------------------------------------------------- *)

Access(p, op, i, v) == [who |-> p, op |-> op, idx |-> i, val |-> v]

IsFRRead(e) == e.op = "read" /\ e.idx = FRIdx

FRReads(l) == SelectSeq(l, IsFRRead)

IsWrite(e) == e.op = "write"

Writes(l) == SelectSeq(l, IsWrite)

(* ---------------------------------------------------------------------- *)
(* Initial states                                                          *)
(* ---------------------------------------------------------------------- *)

EntryRegs(v, f, o) ==
    [i \in RegIdx |-> IF i = CRIdx THEN v ELSE IF i = FRIdx THEN f ELSE o]

InitWith(crs, frs, fills) ==
    /\ \E v \in crs, f \in frs, o \in fills :
          regs = EntryRegs(v, f, o)
    /\ regs0 = regs
    /\ cr = [p \in Callers |-> {}]
    /\ fr = [p \in Callers |-> {}]
    /\ log = <<>>

\* One call, running alone.
Init ==
    /\ InitWith(CRValues, FlagValues, FillValues)
    /\ \E b \in Payloads :
          args = [p \in Callers |-> [buf |-> b, len |-> Len(b)]]
    /\ pc = [p \in Callers |-> IF p = 1 THEN "L16" ELSE "idle"]

\* Two calls on the same register block with no serialization.
InitConc ==
    /\ InitWith(CRValuesConc, {UARTFR_TXFE}, {{}})
    /\ args = [p \in Callers |-> [buf |-> <<>>, len |-> 0]]
    /\ pc = [p \in Callers |-> "L16"]

(* ---------------------------------------------------------------------- *)
(* The steps of write_packet                                               *)
(* ---------------------------------------------------------------------- *)

\* Line 16: uint32_t cr = base[UARTCR / 4];
ReadCR1(p) ==
    /\ pc[p] = "L16"
    /\ cr' = [cr EXCEPT ![p] = regs[CRIdx]]
    /\ log' = Append(log, Access(p, "read", CRIdx, regs[CRIdx]))
    /\ pc' = [pc EXCEPT ![p] = "L19"]
    /\ UNCHANGED <<regs, regs0, args, fr>>

\* Mutant of WriteCR1: the write-back is left out.
WriteCR1_Skipped(p) ==
    /\ pc[p] = "L19"
    /\ cr' = [cr EXCEPT ![p] = RxMode(cr[p])]
    /\ pc' = [pc EXCEPT ![p] = "L21"]
    /\ UNCHANGED <<regs, regs0, args, fr, log>>

\* Lines 17-19: set RXE, clear TXE, base[UARTCR / 4] = cr;
WriteCR1(p) ==
    /\ pc[p] = "L19"
    /\ cr' = [cr EXCEPT ![p] = RxMode(cr[p])]
    /\ regs' = [regs EXCEPT ![CRIdx] = RxMode(cr[p])]
    /\ log' = Append(log, Access(p, "write", CRIdx, RxMode(cr[p])))
    /\ pc' = [pc EXCEPT ![p] = "L21"]
    /\ UNCHANGED <<regs0, args, fr>>

\* Line 21: asm("nop");
Nop1(p) ==
    /\ pc[p] = "L21"
    /\ pc' = [pc EXCEPT ![p] = "L24"]
    /\ UNCHANGED <<regs, regs0, args, cr, fr, log>>

\* Line 24: uint32_t fr = base[UARTFR / 4];
ReadFR(p) ==
    /\ pc[p] = "L24"
    /\ Len(FRReads(log)) < MaxReads
    /\ fr' = [fr EXCEPT ![p] = regs[FRIdx]]
    /\ log' = Append(log, Access(p, "read", FRIdx, regs[FRIdx]))
    /\ pc' = [pc EXCEPT ![p] = "L25"]
    /\ UNCHANGED <<regs, regs0, args, cr>>

\* Lines 25-27: the FIFO has room, break out of the loop.
LoopBreak(p) ==
    /\ pc[p] = "L25"
    /\ TxNotFull(fr[p])
    /\ pc' = [pc EXCEPT ![p] = "L30"]
    /\ UNCHANGED <<regs, regs0, args, cr, fr, log>>

\* Lines 25-28: the FIFO is full, go round the loop again.
LoopAgain(p) ==
    /\ pc[p] = "L25"
    /\ ~TxNotFull(fr[p])
    /\ pc' = [pc EXCEPT ![p] = "L24"]
    /\ UNCHANGED <<regs, regs0, args, cr, fr, log>>

\* Line 30: asm("nop");
Nop2(p) ==
    /\ pc[p] = "L30"
    /\ pc' = [pc EXCEPT ![p] = "L32"]
    /\ UNCHANGED <<regs, regs0, args, cr, fr, log>>

\* Line 32: cr = base[UARTCR / 4];
ReadCR2(p) ==
    /\ pc[p] = "L32"
    /\ cr' = [cr EXCEPT ![p] = regs[CRIdx]]
    /\ log' = Append(log, Access(p, "read", CRIdx, regs[CRIdx]))
    /\ pc' = [pc EXCEPT ![p] = "L35"]
    /\ UNCHANGED <<regs, regs0, args, fr>>

\* Mutant of WriteCR2: the write goes to the flag register's offset.
WriteCR2_WrongReg(p) ==
    /\ pc[p] = "L35"
    /\ cr' = [cr EXCEPT ![p] = TxMode(cr[p])]
    /\ regs' = [regs EXCEPT ![FRIdx] = TxMode(cr[p])]
    /\ log' = Append(log, Access(p, "write", FRIdx, TxMode(cr[p])))
    /\ pc' = [pc EXCEPT ![p] = "done"]
    /\ UNCHANGED <<regs0, args, fr>>

\* Lines 33-36: set TXE, clear RXE, base[UARTCR / 4] = cr; return.
WriteCR2(p) ==
    /\ pc[p] = "L35"
    /\ cr' = [cr EXCEPT ![p] = TxMode(cr[p])]
    /\ regs' = [regs EXCEPT ![CRIdx] = TxMode(cr[p])]
    /\ log' = Append(log, Access(p, "write", CRIdx, TxMode(cr[p])))
    /\ pc' = [pc EXCEPT ![p] = "done"]
    /\ UNCHANGED <<regs0, args, fr>>

\* The hardware changes the flag register (a volatile, read-only status).
HwFlags ==
    /\ \E f \in FlagValues :
          /\ f # regs[FRIdx]
          /\ regs' = [regs EXCEPT ![FRIdx] = f]
    /\ UNCHANGED <<regs0, args, pc, cr, fr, log>>

Next ==
    \/ \E p \in Callers : ReadCR1(p)
    \/ \E p \in Callers : WriteCR1(p)
    \/ \E p \in Callers : Nop1(p)
    \/ \E p \in Callers : ReadFR(p)
    \/ \E p \in Callers : LoopBreak(p)
    \/ \E p \in Callers : LoopAgain(p)
    \/ \E p \in Callers : Nop2(p)
    \/ \E p \in Callers : ReadCR2(p)
    \/ \E p \in Callers : WriteCR2(p)
    \/ HwFlags

Spec == Init /\ [][Next]_vars

SpecConc == InitConc /\ [][Next]_vars

(* ---------------------------------------------------------------------- *)
(* Vocabulary of the properties                                            *)
(* ---------------------------------------------------------------------- *)

\* Bit numbers, as the register description gives them.
RXE_BIT == 9

TXE_BIT == 8

TXFF_BIT == 5

HasBit(w, n) == n \in w

InRxMode(w) == HasBit(w, RXE_BIT) /\ ~HasBit(w, TXE_BIT)

InTxMode(w) == HasBit(w, TXE_BIT) /\ ~HasBit(w, RXE_BIT)

\* Every bit other than 8 and 9 is as in v.
OthersAsIn(w, v) ==
    \A b \in BitPos \ {RXE_BIT, TXE_BIT} : HasBit(w, b) <=> HasBit(v, b)

\* The control register now, and on entry.
CRNow == regs[CRIdx]

V == regs0[CRIdx]

\* The values the flag-register reads returned, in order.
Readings == [i \in 1 .. Len(FRReads(log)) |-> FRReads(log)[i].val]

Full(f) == HasBit(f, TXFF_BIT)

AllReadsFull == \A i \in 1 .. Len(Readings) : Full(Readings[i])

IsCRWrite(e) == e.op = "write" /\ e.idx = CRIdx

Running(p) == pc[p] \notin {"idle", "done"}

(* ---------------------------------------------------------------------- *)
(* C1                                                                      *)
(* ---------------------------------------------------------------------- *)

\* C1: for every entry value V of the control register, when the call runs
\* alone and the first flag-register read reports FIFO-not-full, then at
\* return the control register has bit 8 set, bit 9 clear and every other
\* bit as in V.
C1_FinalState ==
    (pc[1] = "done" /\ Len(Readings) >= 1 /\ ~Full(Readings[1])) =>
        /\ HasBit(CRNow, TXE_BIT)
        /\ ~HasBit(CRNow, RXE_BIT)
        /\ OthersAsIn(CRNow, V)

C1_Witness ==
    /\ pc[1] = "done"
    /\ Len(Readings) = 1
    /\ ~Full(Readings[1])
    /\ V = {0, 9, 31}

(* ---------------------------------------------------------------------- *)
(* C2                                                                      *)
(* ---------------------------------------------------------------------- *)

\* C2: after the first read-modify-write and before any flag-register read,
\* the control register has bit 9 set, bit 8 clear and every other bit as
\* in V.
C2_AfterFirstWrite ==
    (pc[1] \in {"L21", "L24"} /\ Len(Readings) = 0) =>
        /\ HasBit(CRNow, RXE_BIT)
        /\ ~HasBit(CRNow, TXE_BIT)
        /\ OthersAsIn(CRNow, V)

C2_Witness ==
    /\ pc[1] = "L21"
    /\ Len(Writes(log)) = 1
    /\ V = {0, 8, 10}

(* ---------------------------------------------------------------------- *)
(* C3                                                                      *)
(* ---------------------------------------------------------------------- *)

\* C3: in every state of a single uninterrupted call, whatever the flag
\* register reads return, CR & ~0x300 == V & ~0x300.
C3_NonInterference ==
    BitAnd(CRNow, BitPos \ {RXE_BIT, TXE_BIT})
        = BitAnd(V, BitPos \ {RXE_BIT, TXE_BIT})

C3_Witness ==
    /\ pc[1] = "done"
    /\ Len(Readings) >= 2
    /\ V = {0, 10, 31}

(* ---------------------------------------------------------------------- *)
(* C4                                                                      *)
(* ---------------------------------------------------------------------- *)

\* C4: a call that has returned did exactly N+1 flag-register reads, where
\* the first N reported FIFO-full and the last one not-full; the access that
\* follows the last flag read is the read of the control register for the
\* final write, and the log ends with that write.
C4_PollCount ==
    pc[1] = "done" =>
        LET n == Len(Readings) IN
        /\ n >= 1
        /\ \A i \in 1 .. (n - 1) : Full(Readings[i])
        /\ ~Full(Readings[n])
        /\ n = Cardinality({i \in 1 .. n : Full(Readings[i])}) + 1
        /\ Len(log) = n + 4
        /\ IsFRRead(log[n + 2])
        /\ ~IsFRRead(log[n + 3])
        /\ IsCRWrite(log[n + 4])

C4_Witness ==
    /\ pc[1] = "done"
    /\ Len(Readings) = MaxReads
    /\ \A i \in 1 .. (MaxReads - 1) : Full(Readings[i])

(* ---------------------------------------------------------------------- *)
(* C5                                                                      *)
(* ---------------------------------------------------------------------- *)

\* C5: as long as every flag-register read has reported FIFO-full, the call
\* has not left the poll loop: it has not returned, it has done no second
\* write, it is at one of the lines up to the loop (there is no error or
\* timeout exit), and once the first write is done the control register is
\* receive-enabled and transmit-disabled.
C5_Hang ==
    AllReadsFull =>
        /\ pc[1] \in {"L16", "L19", "L21", "L24", "L25"}
        /\ Len(Writes(log)) <= 1
        /\ (Len(Writes(log)) = 1 => InRxMode(CRNow))

C5_Witness ==
    /\ AllReadsFull
    /\ Len(Readings) = MaxReads
    /\ pc[1] = "L24"

(* ---------------------------------------------------------------------- *)
(* C6                                                                      *)
(* ---------------------------------------------------------------------- *)

\* C6: in the log of a call, every flag-register read comes after the
\* receive-mode write of the control register and before the transmit-mode
\* write; a call that has returned ends its log with the transmit-mode
\* write.
C6_Ordering ==
    /\ \A i \in 1 .. Len(log) :
          IsFRRead(log[i]) =>
              /\ \E j \in 1 .. (i - 1) :
                    IsCRWrite(log[j]) /\ InRxMode(log[j].val)
              /\ \A j \in 1 .. (i - 1) :
                    ~(IsWrite(log[j]) /\ InTxMode(log[j].val))
    /\ pc[1] = "done" =>
          /\ IsCRWrite(log[Len(log)])
          /\ InTxMode(log[Len(log)].val)

C6_Witness ==
    /\ pc[1] = "done"
    /\ Len(Readings) = 2
    /\ V = {0, 8}

(* ---------------------------------------------------------------------- *)
(* C7                                                                      *)
(* ---------------------------------------------------------------------- *)

\* C7: every value the call writes to the control register has at most one
\* of bit 9 and bit 8 set, so from the first write on the control register
\* never holds both, also when V has both.
C7_HalfDuplex ==
    /\ \A i \in 1 .. Len(log) :
          IsWrite(log[i]) =>
              ~(HasBit(log[i].val, RXE_BIT) /\ HasBit(log[i].val, TXE_BIT))
    /\ Len(Writes(log)) >= 1 =>
          ~(HasBit(CRNow, RXE_BIT) /\ HasBit(CRNow, TXE_BIT))

C7_Witness ==
    /\ pc[1] = "done"
    /\ HasBit(V, RXE_BIT)
    /\ HasBit(V, TXE_BIT)

(* ---------------------------------------------------------------------- *)
(* C8                                                                      *)
(* ---------------------------------------------------------------------- *)

\* C8: the step that leaves the test of line 25 breaks out of the loop
\* exactly when bit 5 of the most recent flag read is clear and goes round
\* again exactly when it is set, whatever the other bits are; and the
\* transmit-mode write is done only when the most recent flag read had
\* bit 5 clear.
C8_Step ==
    \A p \in Callers :
        /\ (pc[p] = "L25" /\ pc'[p] # "L25") =>
              /\ Len(Readings) >= 1
              /\ pc'[p] = IF Full(Readings[Len(Readings)]) THEN "L24" ELSE "L30"
        /\ (pc[p] = "L35" /\ pc'[p] = "done") =>
              /\ Len(Readings) >= 1
              /\ ~Full(Readings[Len(Readings)])
              /\ InTxMode(regs'[CRIdx])

C8_ExitOnBit5 == [][C8_Step]_vars

C8_Witness ==
    /\ pc[1] = "done"
    /\ Len(Readings) = 2
    /\ Readings[1] = {5, 7}
    /\ Readings[2] = {3}

(* ---------------------------------------------------------------------- *)
(* C9                                                                      *)
(* ---------------------------------------------------------------------- *)

\* C9: with two unserialized calls, a caller can have returned while the
\* control register is not transmit-enabled/receive-disabled (C9_Witness);
\* whenever that is so, the control register is receive-enabled and
\* transmit-disabled, the other caller is between its first and its final
\* write, and that first write is the last write done, after the returned
\* caller's final write.
C9_RaceShape ==
    \A p \in Callers :
        (pc[p] = "done" /\ ~InTxMode(CRNow)) =>
            /\ InRxMode(CRNow)
            /\ \E q \in Callers \ {p} :
                  /\ pc[q] \in {"L21", "L24", "L25", "L30", "L32", "L35"}
                  /\ LET w == Writes(log) IN
                     /\ Len(w) >= 3
                     /\ w[Len(w)].who = q
                     /\ Cardinality({i \in 1 .. Len(w) : w[i].who = q}) = 1
                     /\ Cardinality({i \in 1 .. Len(w) : w[i].who = p}) = 2

C9_Witness ==
    /\ pc[1] = "done"
    /\ Running(2)
    /\ InRxMode(CRNow)

(* ---------------------------------------------------------------------- *)
(* C10                                                                     *)
(* ---------------------------------------------------------------------- *)

\* The accesses of a call by p that entered with v in the control register
\* and read fs from the flag register.
ExpectedLog(p, v, fs) ==
    LET rx == (v \cup {RXE_BIT}) \ {TXE_BIT}
        tx == (v \cup {TXE_BIT}) \ {RXE_BIT}
    IN  <<Access(p, "read", CRIdx, v), Access(p, "write", CRIdx, rx)>>
          \o [i \in 1 .. Len(fs) |-> Access(p, "read", FRIdx, fs[i])]
          \o <<Access(p, "read", CRIdx, rx), Access(p, "write", CRIdx, tx)>>

\* C10: every write of the call is to the control register, no register
\* other than the control register is changed by the call, and a call that
\* has returned has done exactly two writes; its accesses are those fixed by
\* V and the flag readings alone, whatever buf and len are.
C10_Frame ==
    /\ \A i \in 1 .. Len(log) : IsWrite(log[i]) => log[i].idx = CRIdx
    /\ \A i \in RegIdx \ {CRIdx, FRIdx} : regs[i] = regs0[i]
    /\ pc[1] = "done" =>
          /\ Len(Writes(log)) = 2
          /\ log = ExpectedLog(1, V, Readings)

C10_Witness ==
    /\ pc[1] = "done"
    /\ Len(Readings) = 2
    /\ args[1].len = 3
    /\ regs0[0] = BitPos

====
